---- MODULE Spec2Model ----
(***************************************************************************)
(* Model of dcos/util.py (dcos-cli): the validation-error reporter         *)
(* (validate_json, _hack_error_message_fix, _format_validation_error,      *)
(* list_to_err), the JSON loaders (load_json, load_jsons) and the          *)
(* temporary-file context manager (temptext).                              *)
(*                                                                         *)
(* Text is modelled as a sequence of pieces.  A character that comes from  *)
(* data (a message, a path segment, a JSON text) is a one-character        *)
(* string; a literal of the code ('Error: ', 'Path: ', ...) is one piece   *)
(* holding the literal.  No data alphabet below contains a character of    *)
(* those literals' leading capitals, so two texts are equal exactly when   *)
(* their piece sequences are.                                              *)
(*                                                                         *)
(* six.u is the identity (Python 3 build of six).                          *)
(***************************************************************************)
EXTENDS Integers, Sequences, FiniteSets, TLC

VARIABLES
    message,            \* _hack_error_message_fix: its argument
    fixed,              \* ... its result
    fixed_again,        \* ... the result of applying it to its own result
    fix_pc,             \* "idle" | "start" | "once" | "twice"
    error,              \* _format_validation_error: its argument
    formatted,          \* ... its outcome
    fmt_pc,             \* "idle" | "start" | "done"
    engine_errors,      \* validate_json: list(validator.iter_errors(instance))
    result,             \* ... its outcome
    val_pc,             \* "idle" | "start" | "done"
    json_text,          \* load_jsons / load_json: the text to parse
    json_outcome,       \* ... what the call returned or raised
    json_log,           \* ... what it handed to logger.error
    json_pc,            \* "idle" | "start" | "load_jsons" | "load_json"
    fs,                 \* temptext: the file system, path -> absent | file | dir
    tmp_path,           \* ... the path mkstemp returned
    fd_open,            \* ... whether the descriptor mkstemp returned is open
    written,            \* ... how much the body wrote to the descriptor
    body_closed,        \* ... whether the body closed the descriptor
    body_removed,       \* ... whether the body removed the file
    raising,            \* ... whether an exception is leaving the scope
    temp_pc,            \* "idle" | "start" | "inside" | "exited"
    err_list,           \* list_to_err: its argument
    joined,             \* ... its result
    join_pc             \* "idle" | "start" | "done"

fix_vars == <<message, fixed, fixed_again, fix_pc>>
fmt_vars == <<error, formatted, fmt_pc>>
val_vars == <<engine_errors, result, val_pc>>

json_vars == <<json_text, json_outcome, json_log, json_pc>>
temp_vars == <<fs, tmp_path, fd_open, written, body_closed, body_removed, raising, temp_pc>>
join_vars == <<err_list, joined, join_pc>>

vars == <<fix_vars, fmt_vars, val_vars, json_vars, temp_vars, join_vars>>

-----------------------------------------------------------------------------
(* Bounds *)

\* longest message handed to _hack_error_message_fix
MaxFixLen == 5
\* longest variable part of a message handed to _format_validation_error
MaxFmtMsgLen == 2
\* longest absolute_path handed to _format_validation_error
MaxPathLen == 2
\* most errors the engine reports to validate_json
MaxErrors == 2
\* longest text handed to load_jsons / load_json
MaxJsonLen == 4
\* most writes of the body of a temptext() scope
MaxWrites == 2
\* most entries handed to list_to_err
MaxJoined == 3
\* longest entry handed to list_to_err
MaxEntryLen == 2

-----------------------------------------------------------------------------
(* Text helpers *)

None == <<"None">>

\* Python's \s for the characters the model uses
Whitespace == {" ", "\n", "\t"}

\* the class [\[\(\{\s] of the second regular expression
Openers == {"[", "(", "{"} \cup Whitespace

-----------------------------------------------------------------------------
(* _hack_error_message_fix *)

\* re.compile("^u'").sub("'", message)
StripLeading(m) ==
    IF Len(m) >= 2 /\ m[1] = "u" /\ m[2] = "'" THEN Tail(m) ELSE m

\* re.compile("([\[\(\{\s])u'").sub("\g<1>'", m): leftmost, non-overlapping
\* matches, scanned from position i
RECURSIVE StripInteriorFrom(_, _)
StripInteriorFrom(m, i) ==
    IF i > Len(m) THEN <<>>
    ELSE IF i + 2 <= Len(m) /\ m[i] \in Openers /\ m[i + 1] = "u" /\ m[i + 2] = "'"
         THEN <<m[i], "'">> \o StripInteriorFrom(m, i + 3)
         ELSE <<m[i]>> \o StripInteriorFrom(m, i + 1)

StripInterior(m) == StripInteriorFrom(m, 1)

\* a variant that forgets the character class: every u' loses its u
RECURSIVE StripAnyFrom(_, _)
StripAnyFrom(m, i) ==
    IF i > Len(m) THEN <<>>
    ELSE IF i + 1 <= Len(m) /\ m[i] = "u" /\ m[i + 1] = "'"
         THEN <<"'">> \o StripAnyFrom(m, i + 2)
         ELSE <<m[i]>> \o StripAnyFrom(m, i + 1)

hack_fix_any(m) == StripAnyFrom(m, 1)

\* a variant that forgets the first pass
hack_fix_no_leading(m) == StripInterior(m)

hack_error_message_fix(m) == StripInterior(StripLeading(m))

-----------------------------------------------------------------------------
(* Python str comparison: lexicographic by code point *)

CodePoint(c) ==
    CASE c = "\t" -> 9
      [] c = "\n" -> 10
      [] c = " " -> 32
      [] c = "'" -> 39
      [] c = "(" -> 40
      [] c = "[" -> 91
      [] c = "a" -> 97
      [] c = "d" -> 100
      [] c = "e" -> 101
      [] c = "i" -> 105
      [] c = "o" -> 111
      [] c = "p" -> 112
      [] c = "q" -> 113
      [] c = "r" -> 114
      [] c = "s" -> 115
      [] c = "t" -> 116
      [] c = "u" -> 117
      [] c = "y" -> 121
      [] c = "{" -> 123

\* a < b for two str values
StrLess(a, b) ==
    \E k \in 1..(Len(b)) :
        /\ \A j \in 1..(k - 1) : j <= Len(a) /\ a[j] = b[j]
        /\ \/ k = Len(a) + 1
           \/ k <= Len(a) /\ CodePoint(a[k]) < CodePoint(b[k])

-----------------------------------------------------------------------------
(* _format_validation_error *)

\* the literal text of the pattern "(.+) is a required property" after (.+)
IsRequired ==
    <<" ", "i", "s", " ", "a", " ", "r", "e", "q", "u", "i", "r", "e", "d",
      " ", "p", "r", "o", "p", "e", "r", "t", "y">>

LiteralAt(m, p) ==
    /\ p + Len(IsRequired) - 1 <= Len(m)
    /\ SubSeq(m, p, p + Len(IsRequired) - 1) = IsRequired

\* the positions p where the literal starts and (.+), begun at s, can end
\* just before: s..p-1 is not empty and holds no line break ('.' matches
\* anything but "\n")
GroupEnds(m, s) ==
    {p \in (s + 1)..Len(m) :
        /\ LiteralAt(m, p)
        /\ \A k \in s..(p - 1) : m[k] # "\n"}

\* re.search("(.+) is a required property", m): the leftmost start, and from
\* it the longest group.  matched = FALSE is Python's None.
required_search(m) ==
    LET starts == {s \in 1..Len(m) : GroupEnds(m, s) # {}}
    IN  IF starts = {} THEN [matched |-> FALSE, group1 |-> <<>>]
        ELSE LET s == CHOOSE x \in starts : \A y \in starts : x <= y
                 p == CHOOSE x \in GroupEnds(m, s) : \A y \in GroupEnds(m, s) : y <= x
             IN  [matched |-> TRUE, group1 |-> SubSeq(m, s, p - 1)]

\* json.dumps(error.instance) for None, a str and an int
json_dumps(v) ==
    CASE v.type = "null" -> <<"null">>
      [] v.type = "str" -> <<"\"">> \o v.text \o <<"\"">>
      [] v.type = "int" -> v.text

\* '.'.join(error.absolute_path): str.join raises TypeError on an item that
\* is not a str, an array index (int) among them
RECURSIVE DotJoin(_)
DotJoin(path) ==
    IF Len(path) = 1 THEN path[1].text
    ELSE DotJoin(SubSeq(path, 1, Len(path) - 1)) \o <<".">> \o path[Len(path)].text

Returned(v) == [kind |-> "return", value |-> v, exc |-> "none"]
Raised(e) == [kind |-> "raise", value |-> <<>>, exc |-> e]

\* a variant that keeps the Path and Value lines for a required property
format_validation_error_keeps_path(e) ==
    LET error_message == hack_error_message_fix(e.message)
        match == required_search(error_message)
        head == IF match.matched
                THEN <<"Error: missing required property ">> \o match.group1 \o <<".">>
                ELSE <<"Error: ">> \o error_message \o <<"\n">>
    IN  IF Len(e.absolute_path) > 0 /\ \E i \in 1..Len(e.absolute_path) : e.absolute_path[i].is_int
        THEN Raised("TypeError")
        ELSE Returned(head
                      \o (IF Len(e.absolute_path) > 0
                          THEN <<"Path: ">> \o DotJoin(e.absolute_path) \o <<"\n">>
                          ELSE <<>>)
                      \o <<"Value: ">> \o json_dumps(e.instance))

format_validation_error(e) ==
    LET error_message == hack_error_message_fix(e.message)
        match == required_search(error_message)
    IN  IF match.matched
        THEN Returned(<<"Error: missing required property ">> \o match.group1 \o <<".">>)
        ELSE IF Len(e.absolute_path) > 0
                /\ \E i \in 1..Len(e.absolute_path) : e.absolute_path[i].is_int
        THEN Raised("TypeError")
        ELSE Returned(<<"Error: ">> \o error_message \o <<"\n">>
                      \o (IF Len(e.absolute_path) > 0
                          THEN <<"Path: ">> \o DotJoin(e.absolute_path) \o <<"\n">>
                          ELSE <<>>)
                      \o <<"Value: ">> \o json_dumps(e.instance))

-----------------------------------------------------------------------------
(* validate_json *)

six_u(s) == s

\* a variant that sorts by the raw message
sort_key_raw(ve) == ve.message

sort_key(ve) == six_u(hack_error_message_fix(ve.message))

\* xs, sorted by key, with e put after every element that is not greater:
\* sorted() uses only <, and keeps equal elements in their given order
RECURSIVE InsertSorted(_, _)
InsertSorted(xs, e) ==
    IF xs = <<>> THEN <<e>>
    ELSE IF StrLess(sort_key(e), sort_key(xs[Len(xs)]))
         THEN Append(InsertSorted(SubSeq(xs, 1, Len(xs) - 1), e), xs[Len(xs)])
         ELSE Append(xs, e)

\* a variant that leaves the engine's order
sorted_not(xs) == xs

RECURSIVE sorted(_)
sorted(xs) ==
    IF xs = <<>> THEN <<>>
    ELSE InsertSorted(sorted(SubSeq(xs, 1, Len(xs) - 1)), xs[Len(xs)])

\* [_format_validation_error(e) for e in validation_errors], after
\* sorted(validation_errors, key=sort_key); the first raise ends the call
validate_json(errors) ==
    LET validation_errors == sorted(errors)
        each == [i \in 1..Len(validation_errors) |->
                     format_validation_error(validation_errors[i])]
    IN  IF \E i \in 1..Len(each) : each[i].kind = "raise"
        THEN Raised("TypeError")
        ELSE Returned([i \in 1..Len(each) |-> each[i].value])

-----------------------------------------------------------------------------
(* json.loads (Python 3), for texts over [ ] 1 , and the blank.  Texts here *)
(* are sequences of single characters, the literals included.              *)

ExpectingValue ==
    <<"E", "x", "p", "e", "c", "t", "i", "n", "g", " ", "v", "a", "l", "u",
      "e">>

ExtraData ==
    <<"E", "x", "t", "r", "a", " ", "d", "a", "t", "a">>

ExpectingDelimiter ==
    <<"E", "x", "p", "e", "c", "t", "i", "n", "g", " ", "'", ",", "'", " ",
      "d", "e", "l", "i", "m", "i", "t", "e", "r">>

LineOneColumn ==
    <<":", " ", "l", "i", "n", "e", " ", "1", " ", "c", "o", "l", "u", "m",
      "n", " ">>

CharOpen ==
    <<" ", "(", "c", "h", "a", "r", " ">>

ErrorLoadingJSONDot ==
    <<"E", "r", "r", "o", "r", " ", "l", "o", "a", "d", "i", "n", "g", " ",
      "J", "S", "O", "N", ".">>

ErrorLoadingJSONColon ==
    <<"E", "r", "r", "o", "r", " ", "l", "o", "a", "d", "i", "n", "g", " ",
      "J", "S", "O", "N", ":", " ">>

JsonWhitespace == {" ", "\t", "\n", "\r"}

Digit(n) ==
    CASE n = 0 -> "0" [] n = 1 -> "1" [] n = 2 -> "2" [] n = 3 -> "3" [] n = 4 -> "4"
      [] n = 5 -> "5" [] n = 6 -> "6" [] n = 7 -> "7" [] n = 8 -> "8" [] n = 9 -> "9"

\* str(JSONDecodeError(msg, doc, pos)) for a one-line doc; index = pos + 1
DecodeErrorText(msg, index) ==
    msg \o LineOneColumn \o <<Digit(index)>> \o CharOpen \o <<Digit(index - 1)>> \o <<")">>

\* WHITESPACE.match(s, i).end(): the first index from i on that holds no
\* whitespace (Len(s) + 1 at the end of s)
RECURSIVE SkipWhitespace(_, _)
SkipWhitespace(s, i) ==
    IF i <= Len(s) /\ s[i] \in JsonWhitespace THEN SkipWhitespace(s, i + 1) ELSE i

\* NUMBER_RE.match(s, i).end() for the digit 1
RECURSIVE NumberEnd(_, _)
NumberEnd(s, i) ==
    IF i <= Len(s) /\ s[i] = "1" THEN NumberEnd(s, i + 1) ELSE i

RECURSIVE DecimalValue(_, _, _)
DecimalValue(s, i, end) ==
    IF i >= end THEN 0 ELSE 10 * DecimalValue(s, i, end - 1) + 1

Parsed(v, end) == [ok |-> TRUE, value |-> v, end |-> end, err |-> <<>>, index |-> 0]
\* StopIteration(idx) of scan_once
Stopped(index) == [ok |-> FALSE, value |-> <<>>, end |-> 0, err |-> <<>>, index |-> index]
DecodeError(msg, index) ==
    [ok |-> FALSE, value |-> <<>>, end |-> 0, err |-> msg, index |-> index]

IntValue(n) == [type |-> "int", n |-> n, items |-> <<>>]
ListValue(items) == [type |-> "list", n |-> 0, items |-> items]

RECURSIVE scan_once(_, _)
RECURSIVE JSONArrayItems(_, _, _)

\* JSONArray((s, end)), end just after the [
JSONArray(s, end) ==
    LET e1 == IF end <= Len(s) /\ s[end] \in JsonWhitespace
              THEN SkipWhitespace(s, end + 1) ELSE end
    IN  IF e1 <= Len(s) /\ s[e1] = "]"
        THEN Parsed(ListValue(<<>>), e1 + 1)
        ELSE JSONArrayItems(s, e1, <<>>)

\* the while True loop of JSONArray
JSONArrayItems(s, end, values) ==
    LET item == scan_once(s, end)
    IN  IF ~item.ok
        THEN IF item.err = <<>> THEN DecodeError(ExpectingValue, item.index) ELSE item
        ELSE LET e2 == IF item.end <= Len(s) /\ s[item.end] \in JsonWhitespace
                       THEN SkipWhitespace(s, item.end + 1) ELSE item.end
                 nextchar == IF e2 <= Len(s) THEN s[e2] ELSE ""
             IN  IF nextchar = "]"
                 THEN Parsed(ListValue(Append(values, item.value)), e2 + 1)
                 ELSE IF nextchar # ","
                 THEN DecodeError(ExpectingDelimiter, e2)
                 ELSE JSONArrayItems(s, SkipWhitespace(s, e2 + 1), Append(values, item.value))

scan_once(s, idx) ==
    IF idx > Len(s) THEN Stopped(idx)
    ELSE IF s[idx] = "[" THEN JSONArray(s, idx + 1)
    ELSE IF s[idx] = "1"
         THEN Parsed(IntValue(DecimalValue(s, idx, NumberEnd(s, idx))), NumberEnd(s, idx))
    ELSE Stopped(idx)

\* json.loads(s): JSONDecoder.decode
json_loads(s) ==
    LET r == scan_once(s, SkipWhitespace(s, 1))
    IN  IF ~r.ok
        THEN IF r.err = <<>> THEN DecodeError(ExpectingValue, r.index) ELSE r
        ELSE IF SkipWhitespace(s, r.end) # Len(s) + 1
             THEN DecodeError(ExtraData, SkipWhitespace(s, r.end))
             ELSE r

-----------------------------------------------------------------------------
(* load_jsons, load_json *)

JsonReturned(v) == [kind |-> "return", value |-> v, exc |-> "none", text |-> <<>>]
JsonRaised(e, text) == [kind |-> "raise", value |-> <<>>, exc |-> e, text |-> text]

\* a variant that swallows the failure and returns None
load_jsons_returns_none(value) ==
    LET r == json_loads(value)
    IN  IF r.ok THEN JsonReturned(r.value) ELSE JsonReturned(None)

\* the outcome of load_jsons(value)
load_jsons(value) ==
    LET r == json_loads(value)
    IN  IF r.ok THEN JsonReturned(r.value)
        ELSE JsonRaised("DCOSException", ErrorLoadingJSONDot)

\* what load_jsons(value) logs: logger.error(format, value, error)
load_jsons_log(value) ==
    IF json_loads(value).ok THEN <<>>
    ELSE <<[format |-> "Unhandled exception while loading JSON: %r -- %r",
            args |-> <<value, <<"JSONDecodeError">>>>]>>

\* the outcome of load_json(reader), reader.read() giving text
load_json(text) ==
    LET r == json_loads(text)
    IN  IF r.ok THEN JsonReturned(r.value)
        ELSE JsonRaised("DCOSException",
                        ErrorLoadingJSONColon \o DecodeErrorText(r.err, r.index))

\* what load_json(reader) logs: logger.error(format, error)
load_json_log(text) ==
    LET r == json_loads(text)
    IN  IF r.ok THEN <<>>
        ELSE <<[format |-> "Unhandled exception while loading JSON: %r",
                args |-> <<DecodeErrorText(r.err, r.index)>>]>>

-----------------------------------------------------------------------------
(* Each specification runs one operation; the others stay idle *)

FmtIdle ==
    /\ error = None
    /\ formatted = None
    /\ fmt_pc = "idle"

ValIdle ==
    /\ engine_errors = None
    /\ result = None
    /\ val_pc = "idle"

JsonIdle ==
    /\ json_text = None
    /\ json_outcome = None
    /\ json_log = <<>>
    /\ json_pc = "idle"

TempIdle ==
    /\ fs = None
    /\ tmp_path = "none"
    /\ fd_open = FALSE
    /\ written = 0
    /\ body_closed = FALSE
    /\ body_removed = FALSE
    /\ raising = FALSE
    /\ temp_pc = "idle"

JoinIdle ==
    /\ err_list = None
    /\ joined = None
    /\ join_pc = "idle"

FixIdle ==
    /\ message = None
    /\ fixed = None
    /\ fixed_again = None
    /\ fix_pc = "idle"

-----------------------------------------------------------------------------
(* SpecFix: _hack_error_message_fix on every message over FixChars *)

FixChars == {"u", "'", "[", "(", "{", " ", "\n", "a"}

FixInit ==
    /\ JsonIdle
    /\ TempIdle
    /\ JoinIdle
    /\ FmtIdle
    /\ ValIdle
    /\ \E n \in 0..MaxFixLen : message \in [1..n -> FixChars]
    /\ fixed = None
    /\ fixed_again = None
    /\ fix_pc = "start"

FixOnce ==
    /\ fix_pc = "start"
    /\ fixed' = hack_error_message_fix(message)
    /\ fix_pc' = "once"
    /\ UNCHANGED <<message, fixed_again, fmt_vars, val_vars, json_vars, temp_vars, join_vars>>

FixTwice ==
    /\ fix_pc = "once"
    /\ fixed_again' = hack_error_message_fix(fixed)
    /\ fix_pc' = "twice"
    /\ UNCHANGED <<message, fixed, fmt_vars, val_vars, json_vars, temp_vars, join_vars>>

FixNext == FixOnce \/ FixTwice

SpecFix == FixInit /\ [][FixNext]_vars

\* positions of the marker characters of m: a u directly before a single
\* quote, first in m or directly after whitespace, [, ( or {
Markers(m) ==
    {i \in 1..Len(m) :
        /\ m[i] = "u"
        /\ i < Len(m)
        /\ m[i + 1] = "'"
        /\ (i = 1 \/ m[i - 1] \in Openers)}

\* m without the positions in D, the rest in order
RECURSIVE Without(_, _)
Without(m, D) ==
    IF m = <<>> THEN <<>>
    ELSE LET front == Without(SubSeq(m, 1, Len(m) - 1), D)
         IN  IF Len(m) \in D THEN front ELSE Append(front, m[Len(m)])

\* C8: normalizing a normalized message gives it again, and a message with
\* no artifact marker is returned unchanged.
FixIdempotent ==
    /\ fix_pc = "twice" => fixed_again = fixed
    /\ (fix_pc \in {"once", "twice"} /\ Markers(message) = {}) => fixed = message

FixIdempotentWitness ==
    /\ fix_pc = "twice"
    /\ Cardinality(Markers(message)) = 2
    /\ fixed_again = fixed

\* C10: the result is the message with exactly its marker characters
\* deleted, every other character kept in order.
FixRemovesOnlyMarkers ==
    fix_pc \in {"once", "twice"} => fixed = Without(message, Markers(message))

FixRemovesOnlyMarkersWitness ==
    /\ fix_pc = "once"
    /\ Markers(message) # {}
    /\ \E i \in 1..(Len(message) - 1) :
           message[i] = "u" /\ message[i + 1] = "'" /\ i \notin Markers(message)

-----------------------------------------------------------------------------
(* SpecFormat: _format_validation_error on one error *)

FmtChars == {"u", "'", "a", " "}

\* the messages: a non-empty text, alone, or before " is a required
\* property" (the engine's "%r is a required property"), or with that
\* literal inside (an offending value quoted in another message)
MessageForms(text) == {text, text \o IsRequired, text \o IsRequired \o <<"'">>}

\* absolute_path holds property names (str) and array indices (int)
PathSegments ==
    {[is_int |-> FALSE, text |-> <<"a">>],
     [is_int |-> FALSE, text |-> <<"b">>],
     [is_int |-> TRUE, text |-> <<"0">>]}

Instances ==
    {[type |-> "null", text |-> <<>>],
     [type |-> "str", text |-> <<"a">>],
     [type |-> "int", text |-> <<"1">>]}

FmtInit ==
    /\ JsonIdle
    /\ TempIdle
    /\ JoinIdle
    /\ FixIdle
    /\ ValIdle
    /\ \E n \in 1..MaxFmtMsgLen, k \in 0..MaxPathLen :
           \E text \in [1..n -> FmtChars], path \in [1..k -> PathSegments] :
               \E m \in MessageForms(text), v \in Instances :
                   error = [message |-> m, absolute_path |-> path, instance |-> v]
    /\ formatted = None
    /\ fmt_pc = "start"

Format ==
    /\ fmt_pc = "start"
    /\ formatted' = format_validation_error(error)
    /\ fmt_pc' = "done"
    /\ UNCHANGED <<error, fix_vars, val_vars, json_vars, temp_vars, join_vars>>

FmtNext == Format

SpecFormat == FmtInit /\ [][FmtNext]_vars

-----------------------------------------------------------------------------
(* SpecValidate: validate_json on every list of errors the engine reports *)

\* the variable part of the engine's messages: a marker that is stripped
\* (u' -> '), the text it is stripped to, and two texts that compare the
\* other way round once cleaned ('u against u')
ValTexts == {<<"u", "'">>, <<"'">>, <<"'", "u">>, <<"u">>}

\* "<text>" (any other keyword's message) and "<text> is a required property"
ValMessages == ValTexts \cup {t \o IsRequired : t \in ValTexts}

\* where an error was found: the root, a property, an array item
ValLocations ==
    {[absolute_path |-> <<>>, instance |-> [type |-> "null", text |-> <<>>]],
     [absolute_path |-> <<[is_int |-> FALSE, text |-> <<"a">>]>>,
      instance |-> [type |-> "str", text |-> <<"a">>]],
     [absolute_path |-> <<[is_int |-> FALSE, text |-> <<"a">>],
                          [is_int |-> TRUE, text |-> <<"0">>]>>,
      instance |-> [type |-> "int", text |-> <<"1">>]]}

ValErrors ==
    {[message |-> m, absolute_path |-> l.absolute_path, instance |-> l.instance] :
        m \in ValMessages, l \in ValLocations}

ValInit ==
    /\ JsonIdle
    /\ TempIdle
    /\ JoinIdle
    /\ FixIdle
    /\ FmtIdle
    /\ \E n \in 0..MaxErrors : engine_errors \in [1..n -> ValErrors]
    /\ result = None
    /\ val_pc = "start"

ValidateJson ==
    /\ val_pc = "start"
    /\ result' = validate_json(engine_errors)
    /\ val_pc' = "done"
    /\ UNCHANGED <<engine_errors, fix_vars, fmt_vars, json_vars, temp_vars, join_vars>>

ValNext == ValidateJson

SpecValidate == ValInit /\ [][ValNext]_vars

-----------------------------------------------------------------------------
(* Properties of _format_validation_error (SpecFormat) *)

Clean(e) == hack_error_message_fix(e.message)

\* m is "<X> is a required property" for a non-empty X
HasRequiredForm(m) ==
    /\ Len(m) > Len(IsRequired)
    /\ SubSeq(m, Len(m) - Len(IsRequired) + 1, Len(m)) = IsRequired

RequiredName(m) == SubSeq(m, 1, Len(m) - Len(IsRequired))

\* C4: an error whose cleaned message does not match "<X> is a required
\* property" is formatted as "Error: <cleaned message>", a line
\* "Path: <segments joined by '.'>" exactly when the path is not empty
\* (property names and array indices alike), then "Value: <value as JSON>".
GenericFormat ==
    (fmt_pc = "done" /\ ~required_search(Clean(error)).matched) =>
        formatted =
            Returned(<<"Error: ">> \o Clean(error) \o <<"\n">>
                     \o (IF error.absolute_path # <<>>
                         THEN <<"Path: ">> \o DotJoin(error.absolute_path) \o <<"\n">>
                         ELSE <<>>)
                     \o <<"Value: ">> \o json_dumps(error.instance))

\* C5: an error whose cleaned message is "<X> is a required property" is
\* formatted as exactly "Error: missing required property <X>.", with no
\* Path and no Value line, whatever its path and offending value.
RequiredFormat ==
    (fmt_pc = "done" /\ HasRequiredForm(Clean(error))) =>
        /\ formatted =
               Returned(<<"Error: missing required property ">>
                        \o RequiredName(Clean(error)) \o <<".">>)
        /\ \A i \in 1..Len(formatted.value) : formatted.value[i] \notin {"Path: ", "Value: "}

RequiredFormatWitness ==
    /\ fmt_pc = "done"
    /\ HasRequiredForm(Clean(error))
    /\ Clean(error) # error.message
    /\ \E i \in 1..Len(error.absolute_path) : error.absolute_path[i].is_int
    /\ error.instance.type = "str"
    /\ formatted.kind = "return"

-----------------------------------------------------------------------------
(* Properties of validate_json (SpecValidate) *)

Orders(n) == {p \in [1..n -> 1..n] : \A i, j \in 1..n : p[i] = p[j] => i = j}

InOrder(es, p) == [k \in 1..Len(es) |-> es[p[k]]]

\* C1: in the returned sequence, the entry of an error whose cleaned message
\* is smaller (code-point order) comes before the entry of an error whose
\* cleaned message is greater.
SortedByCleanMessage ==
    (val_pc = "done" /\ result.kind = "return") =>
        \E p \in Orders(Len(engine_errors)) :
            /\ Len(result.value) = Len(engine_errors)
            /\ \A k \in 1..Len(engine_errors) :
                   result.value[k] = format_validation_error(engine_errors[p[k]]).value
            /\ \A k1, k2 \in 1..Len(engine_errors) :
                   StrLess(Clean(engine_errors[p[k1]]), Clean(engine_errors[p[k2]]))
                       => k1 < k2

\* the engine reported the greater cleaned message first, and the raw
\* messages compare the other way round
SortedByCleanMessageWitness ==
    /\ val_pc = "done"
    /\ result.kind = "return"
    /\ Len(engine_errors) = 2
    /\ StrLess(Clean(engine_errors[2]), Clean(engine_errors[1]))
    /\ StrLess(engine_errors[1].message, engine_errors[2].message)
    /\ result.value[1] # result.value[2]

PairwiseDistinctClean(es) ==
    \A i, j \in 1..Len(es) : Clean(es[i]) = Clean(es[j]) => i = j

\* C2 as stated: every order in which the engine could have reported the
\* same errors gives the same outcome.
OrderIndependent ==
    val_pc = "done" =>
        \A p \in Orders(Len(engine_errors)) :
            validate_json(InOrder(engine_errors, p)) = result

\* C2, amended: when the cleaned messages are pairwise distinct, every
\* order in which the engine could have reported the same errors gives the
\* same outcome.
OrderIndependentWhenDistinct ==
    (val_pc = "done" /\ PairwiseDistinctClean(engine_errors)) =>
        \A p \in Orders(Len(engine_errors)) :
            validate_json(InOrder(engine_errors, p)) = result

OrderIndependentWhenDistinctWitness ==
    /\ val_pc = "done"
    /\ Len(engine_errors) = 2
    /\ PairwiseDistinctClean(engine_errors)
    /\ StrLess(Clean(engine_errors[2]), Clean(engine_errors[1]))
    /\ result.kind = "return"
    /\ result.value[1] = format_validation_error(engine_errors[2]).value

\* C3: validate_json returns, with one formatted string per reported error
\* (none when the engine reports none), whatever the errors are.
NeverFailsOnInvalid ==
    val_pc = "done" =>
        /\ result.kind = "return"
        /\ Len(result.value) = Len(engine_errors)

-----------------------------------------------------------------------------
(* SpecJson: load_jsons and load_json on every text over JsonChars *)

JsonChars == {"[", "]", "1", ",", " "}

JsonInit ==
    /\ FixIdle
    /\ FmtIdle
    /\ ValIdle
    /\ TempIdle
    /\ JoinIdle
    /\ \E n \in 0..MaxJsonLen : json_text \in [1..n -> JsonChars]
    /\ json_outcome = None
    /\ json_log = <<>>
    /\ json_pc = "start"

LoadJsons ==
    /\ json_pc = "start"
    /\ json_outcome' = load_jsons(json_text)
    /\ json_log' = json_log \o load_jsons_log(json_text)
    /\ json_pc' = "load_jsons"
    /\ UNCHANGED <<json_text, fix_vars, fmt_vars, val_vars, temp_vars, join_vars>>

LoadJson ==
    /\ json_pc = "start"
    /\ json_outcome' = load_json(json_text)
    /\ json_log' = json_log \o load_json_log(json_text)
    /\ json_pc' = "load_json"
    /\ UNCHANGED <<json_text, fix_vars, fmt_vars, val_vars, temp_vars, join_vars>>

JsonNext == LoadJsons \/ LoadJson

SpecJson == JsonInit /\ [][JsonNext]_vars

\* t occurs in s as a run of consecutive characters
Contains(s, t) ==
    \E i \in 0..(Len(s) - Len(t)) : SubSeq(s, i + 1, i + Len(t)) = t

\* C6 as stated: parsing a text that is not valid JSON fails with a
\* DCOSException that carries the text, and never returns.
ParseFailureCarriesInput ==
    (json_pc \in {"load_jsons", "load_json"} /\ ~json_loads(json_text).ok) =>
        /\ json_outcome.kind = "raise"
        /\ json_outcome.exc = "DCOSException"
        /\ Contains(json_outcome.text, json_text)

\* C6, amended: parsing a text that is not valid JSON fails with a
\* DCOSException and never returns; load_jsons' exception says
\* 'Error loading JSON.' whatever the text (the text goes to the log),
\* load_json's says 'Error loading JSON: ' and the decoder's description.
ParseFailureRaises ==
    (json_pc \in {"load_jsons", "load_json"} /\ ~json_loads(json_text).ok) =>
        /\ json_outcome.kind = "raise"
        /\ json_outcome.exc = "DCOSException"
        /\ json_pc = "load_jsons" =>
               /\ json_outcome.text = ErrorLoadingJSONDot
               /\ Len(json_log) = 1
               /\ json_log[1].args[1] = json_text
        /\ json_pc = "load_json" =>
               /\ SubSeq(json_outcome.text, 1, Len(ErrorLoadingJSONColon)) = ErrorLoadingJSONColon
               /\ \E msg \in {ExpectingValue, ExtraData, ExpectingDelimiter} :
                      \E index \in 1..(Len(json_text) + 1) :
                          json_outcome.text =
                              ErrorLoadingJSONColon \o DecodeErrorText(msg, index)

ParseFailureRaisesWitness ==
    /\ json_pc = "load_jsons"
    /\ json_text = <<"[", "1", ",", "]">>
    /\ json_outcome.kind = "raise"
    /\ ~Contains(json_outcome.text, json_text)

-----------------------------------------------------------------------------
(* SpecTemp: one use of temptext(), "with temptext() as (fd, path): body" *)

Paths == {"/tmp/p1", "/tmp/p2", "/tmp/p3"}

\* shutil.rmtree(path, ignore_errors=True): a directory is removed with what
\* it holds; on a regular file or a missing path os.listdir/os.scandir and
\* os.rmdir fail and the errors are ignored
rmtree(files, path) ==
    IF files[path] = "dir" THEN [files EXCEPT ![path] = "absent"] ELSE files

TempInit ==
    /\ FixIdle
    /\ FmtIdle
    /\ ValIdle
    /\ JsonIdle
    /\ JoinIdle
    /\ fs \in [Paths -> {"absent", "file", "dir"}]
    /\ \E p \in Paths : fs[p] = "absent"
    /\ tmp_path = "none"
    /\ fd_open = FALSE
    /\ written = 0
    /\ body_closed = FALSE
    /\ body_removed = FALSE
    /\ raising = FALSE
    /\ temp_pc = "start"

\* fd, path = tempfile.mkstemp(); yield (fd, path)
MkStemp ==
    /\ temp_pc = "start"
    /\ \E p \in Paths :
           /\ fs[p] = "absent"
           /\ fs' = [fs EXCEPT ![p] = "file"]
           /\ tmp_path' = p
    /\ fd_open' = TRUE
    /\ temp_pc' = "inside"
    /\ UNCHANGED <<written, body_closed, body_removed, raising,
                   fix_vars, fmt_vars, val_vars, json_vars, join_vars>>

\* the body writes to the descriptor
BodyWrite ==
    /\ temp_pc = "inside"
    /\ fd_open
    /\ written < MaxWrites
    /\ written' = written + 1
    /\ UNCHANGED <<fs, tmp_path, fd_open, body_closed, body_removed, raising, temp_pc,
                   fix_vars, fmt_vars, val_vars, json_vars, join_vars>>

\* the body closes the descriptor itself
BodyClose ==
    /\ temp_pc = "inside"
    /\ fd_open
    /\ fd_open' = FALSE
    /\ body_closed' = TRUE
    /\ UNCHANGED <<fs, tmp_path, written, body_removed, raising, temp_pc,
                   fix_vars, fmt_vars, val_vars, json_vars, join_vars>>

\* the body removes the file itself
BodyRemove ==
    /\ temp_pc = "inside"
    /\ fs[tmp_path] = "file"
    /\ fs' = [fs EXCEPT ![tmp_path] = "absent"]
    /\ body_removed' = TRUE
    /\ UNCHANGED <<tmp_path, fd_open, written, body_closed, raising, temp_pc,
                   fix_vars, fmt_vars, val_vars, json_vars, join_vars>>

\* the finally block: os.close(fd), an OSError ignored; then
\* shutil.rmtree(path, ignore_errors=True)
Finally ==
    /\ fd_open' = FALSE
    /\ fs' = rmtree(fs, tmp_path)
    /\ temp_pc' = "exited"

\* the body ends
LeaveNormally ==
    /\ temp_pc = "inside"
    /\ Finally
    /\ raising' = FALSE
    /\ UNCHANGED <<tmp_path, written, body_closed, body_removed,
                   fix_vars, fmt_vars, val_vars, json_vars, join_vars>>

\* the body raises; the exception leaves temptext after the finally block
LeaveByException ==
    /\ temp_pc = "inside"
    /\ Finally
    /\ raising' = TRUE
    /\ UNCHANGED <<tmp_path, written, body_closed, body_removed,
                   fix_vars, fmt_vars, val_vars, json_vars, join_vars>>

TempNext ==
    \/ MkStemp
    \/ BodyWrite
    \/ BodyClose
    \/ BodyRemove
    \/ LeaveNormally
    \/ LeaveByException

SpecTemp == TempInit /\ [][TempNext]_vars

\* C7: once control has left the temptext() scope, normally or by an
\* exception, the descriptor is closed and the file is gone; inside the
\* scope (the body leaving both alone) the file exists and the descriptor
\* is open.
TempFileCleanedUp ==
    /\ temp_pc = "exited" => (~fd_open /\ fs[tmp_path] = "absent")
    /\ (temp_pc = "inside" /\ ~body_closed) => fd_open
    /\ (temp_pc = "inside" /\ ~body_removed) => fs[tmp_path] = "file"

-----------------------------------------------------------------------------
(* SpecJoin: list_to_err on every list of texts over JoinChars *)

JoinChars == {"A", "\n"}

Separator == <<"\n", "\n">>

\* a variant that ends every entry with the separator
RECURSIVE list_to_err_trailing(_)
list_to_err_trailing(errs) ==
    IF errs = <<>> THEN <<>>
    ELSE list_to_err_trailing(SubSeq(errs, 1, Len(errs) - 1)) \o errs[Len(errs)] \o Separator

\* str.join('\n\n', errs)
RECURSIVE list_to_err(_)
list_to_err(errs) ==
    IF errs = <<>> THEN <<>>
    ELSE IF Len(errs) = 1 THEN errs[1]
    ELSE list_to_err(SubSeq(errs, 1, Len(errs) - 1)) \o Separator \o errs[Len(errs)]

JoinInit ==
    /\ FixIdle
    /\ FmtIdle
    /\ ValIdle
    /\ JsonIdle
    /\ TempIdle
    /\ \E n \in 0..MaxJoined :
           err_list \in [1..n -> UNION {[1..k -> JoinChars] : k \in 0..MaxEntryLen}]
    /\ joined = None
    /\ join_pc = "start"

ListToErr ==
    /\ join_pc = "start"
    /\ joined' = list_to_err(err_list)
    /\ join_pc' = "done"
    /\ UNCHANGED <<err_list, fix_vars, fmt_vars, val_vars, json_vars, temp_vars>>

JoinNext == ListToErr

SpecJoin == JoinInit /\ [][JoinNext]_vars

\* where entry i starts in the joined text, less one
RECURSIVE Offset(_, _)
Offset(es, i) ==
    IF i = 1 THEN 0 ELSE Offset(es, i - 1) + Len(es[i - 1]) + Len(Separator)

\* C9: the joined text is the entries in their order, "\n\n" between
\* consecutive entries, nothing before the first and nothing after the
\* last; one entry gives itself, no entry gives the empty text.
JoinedWithBlankLines ==
    join_pc = "done" =>
        /\ err_list = <<>> => joined = <<>>
        /\ Len(err_list) = 1 => joined = err_list[1]
        /\ err_list # <<>> =>
               /\ Len(joined) = Offset(err_list, Len(err_list)) + Len(err_list[Len(err_list)])
               /\ \A i \in 1..Len(err_list) :
                      SubSeq(joined, Offset(err_list, i) + 1, Offset(err_list, i) + Len(err_list[i]))
                          = err_list[i]
               /\ \A i \in 1..(Len(err_list) - 1) :
                      /\ joined[Offset(err_list, i) + Len(err_list[i]) + 1] = "\n"
                      /\ joined[Offset(err_list, i) + Len(err_list[i]) + 2] = "\n"

JoinedWithBlankLinesWitness ==
    /\ join_pc = "done"
    /\ err_list = <<<<"A">>, <<>>, <<"\n", "A">>>>
    /\ joined = <<"A", "\n", "\n", "\n", "\n", "\n", "A">>

====
